---- MODULE Spec2Model ----
(***************************************************************************)
(* Model of unfolding/source/physics_calculations.cpp: normalizeResponse,   *)
(* runMLEM and runMAP.                                                      *)
(*                                                                          *)
(* A C++ double is modelled as a pair <<n, d>>:                             *)
(*   d > 0  : the finite value n/d, kept in lowest terms;                   *)
(*   <<1,0>>: +infinity, <<-1,0>>: -infinity, <<0,0>>: NaN.                 *)
(* The IEEE-754 rules for the non-finite values are followed (x/0, 0/0,     *)
(* 0*inf, inf-inf, every comparison with NaN false).  Finite values are     *)
(* exact: rounding, overflow of finite results and the sign of zero are     *)
(* not modelled.  No negative finite input is drawn, so no negative zero    *)
(* can arise in the code paths modelled.                                    *)
(*                                                                          *)
(* A std::vector is a sequence; C++ index i is index i+1 here.              *)
(***************************************************************************)
EXTENDS Integers, Sequences, FiniteSets, TLC

\* ------------------------------------------------------------------ bounds
MaxBins == 3
MaxMeas == 2
MaxCells == 4

\* ------------------------------------------------------- double arithmetic
Abs(x) == IF x < 0 THEN 0 - x ELSE x

RECURSIVE GCD(_, _)
GCD(a, b) == IF b = 0 THEN a ELSE GCD(b, a % b)

Sign(x) == IF x > 0 THEN 1 ELSE IF x < 0 THEN 0 - 1 ELSE 0

\* The double n/d (d >= 0) in canonical form.
Norm(n, d) ==
    IF d = 0 THEN <<Sign(n), 0>>
    ELSE LET g == GCD(Abs(n), d) IN <<n \div g, d \div g>>

Zero == <<0, 1>>
One == <<1, 1>>
Two == <<2, 1>>
NaN == <<0, 0>>

Int2D(k) == <<k, 1>>

IsNaN(x) == x = NaN
IsFinite(x) == x[2] > 0

\* operator* on doubles (0*inf is NaN)
Mul(x, y) == Norm(x[1] * y[1], x[2] * y[2])

\* operator/ on doubles: x/0 is +-inf, 0/0 and inf/inf are NaN
Recip(x) == IF x[1] < 0 THEN <<0 - x[2], 0 - x[1]>> ELSE <<x[2], x[1]>>
Div(x, y) == LET r == Recip(y) IN Norm(x[1] * r[1], x[2] * r[2])

\* operator+ on doubles: inf + inf = inf, inf + (-inf) = NaN
Add(x, y) ==
    IF x[2] = 0 /\ y[2] = 0
    THEN (IF x = y THEN x ELSE NaN)
    ELSE Norm(x[1] * y[2] + y[1] * x[2], x[2] * y[2])

Neg(x) == <<0 - x[1], x[2]>>
Sub(x, y) == Add(x, Neg(y))

\* pow(x, 2)
Pow2(x) == Mul(x, x)

\* x < y on doubles (false when either is NaN)
Less(x, y) ==
    /\ ~IsNaN(x)
    /\ ~IsNaN(y)
    /\ IF x[2] = 0 /\ y[2] = 0 THEN x[1] < y[1]
       ELSE x[1] * y[2] < y[1] * x[2]

\* x >= y and x <= y on doubles (false when either is NaN)
Geq(x, y) == ~IsNaN(x) /\ ~IsNaN(y) /\ ~Less(x, y)
Leq(x, y) == ~IsNaN(x) /\ ~IsNaN(y) /\ ~Less(y, x)

\* ------------------------------------------------------------------- state
VARIABLES
    pc,                  \* which call the caller is at
    num_bins,
    num_measurements,
    cutoff,
    error,
    beta,                \* chosen by the caller when it calls runMAP
    measurements,
    nns_response,        \* system_response / nns_response [i_meas][i_bin]
    normalized_response,
    initial_spectrum,    \* the caller's spectrum guess, passed to both runs
    initial_ratio,       \* contents of the ratio buffer on entry
    mlem,                \* the run of runMLEM
    map                  \* the run of runMAP

vars == <<pc, num_bins, num_measurements, cutoff, error, beta, measurements,
          nns_response, normalized_response, initial_spectrum, initial_ratio,
          mlem, map>>

inputs == <<num_bins, num_measurements, cutoff, error, measurements,
            nns_response, initial_spectrum, initial_ratio>>


\* ------------------------------------------------------ normalizeResponse
\* for (i_meas ...) temp_value += system_response[i_meas][i_bin];
RECURSIVE ColumnLoop(_, _, _, _, _)
ColumnLoop(i_meas, temp_value, i_bin, nm, system_response) ==
    IF i_meas > nm THEN temp_value
    ELSE ColumnLoop(i_meas + 1, Add(temp_value, system_response[i_meas][i_bin]),
                    i_bin, nm, system_response)

\* A slip of the loop: it sums a row of the matrix instead of a column.
RECURSIVE RowLoop(_, _, _, _, _)
RowLoop(i_bin, temp_value, i_meas, nb, system_response) ==
    IF i_bin > nb THEN temp_value
    ELSE RowLoop(i_bin + 1, Add(temp_value, system_response[i_meas][i_bin]),
                 i_meas, nb, system_response)

normalizeResponse_rows(nb, nm, system_response) ==
    [i_bin \in 1..nb |->
        RowLoop(1, Zero, IF i_bin <= nm THEN i_bin ELSE nm, nb, system_response)]

\* the vector normalizeResponse returns
normalizeResponse(nb, nm, system_response) ==
    [i_bin \in 1..nb |-> ColumnLoop(1, Zero, i_bin, nm, system_response)]

\* ------------------------------------------- the body of the MLEM/MAP loop
\* for (i_bin ...) temp_value += nns_response[i_meas][i_bin]*spectrum[i_bin];
RECURSIVE EstimateLoop(_, _, _, _, _, _)
EstimateLoop(i_bin, temp_value, i_meas, nb, response, spectrum) ==
    IF i_bin > nb THEN temp_value
    ELSE EstimateLoop(i_bin + 1,
                      Add(temp_value, Mul(response[i_meas][i_bin], spectrum[i_bin])),
                      i_meas, nb, response, spectrum)

mlem_estimate(nm, nb, response, spectrum) ==
    [i_meas \in 1..nm |-> EstimateLoop(1, Zero, i_meas, nb, response, spectrum)]

\* A slip: the buffer is not wiped, so the new ratios land after the old ones.
keep(buffer) == buffer

\* mlem_ratio.clear(), energy_correction.clear()
clear(buffer) == << >>

\* mlem_ratio after clear() and the push_back loop
FillRatio(buffer, nm, meas, estimate) ==
    clear(buffer) \o [i_meas \in 1..nm |-> Div(meas[i_meas], estimate[i_meas])]

\* for (i_meas ...) temp_value += nns_response[i_meas][i_bin]*mlem_ratio[i_meas];
RECURSIVE CorrectionLoop(_, _, _, _, _, _)
CorrectionLoop(i_meas, temp_value, i_bin, nm, response, ratio) ==
    IF i_meas > nm THEN temp_value
    ELSE CorrectionLoop(i_meas + 1,
                        Add(temp_value, Mul(response[i_meas][i_bin], ratio[i_meas])),
                        i_bin, nm, response, ratio)

mlem_correction(nb, nm, response, ratio) ==
    [i_bin \in 1..nb |-> CorrectionLoop(1, Zero, i_bin, nm, response, ratio)]

\* A slip of the update: the correction is added instead of multiplied.
UpdateMLEM_additive(nb, spectrum, correction, normalized) ==
    [i_bin \in 1..nb |->
        Div(Add(spectrum[i_bin], correction[i_bin]), normalized[i_bin])]

\* spectrum[i_bin] = spectrum[i_bin]*mlem_correction[i_bin]/normalized_response[i_bin]
UpdateMLEM(nb, spectrum, correction, normalized) ==
    [i_bin \in 1..nb |->
        Div(Mul(spectrum[i_bin], correction[i_bin]), normalized[i_bin])]

\* A slip of the test: the comparisons are strict, so a ratio on the edge of
\* the band counts as inside it.
continue_mlem_strict(nm, ratio, err) ==
    \E i_meas \in 1..nm :
        \/ Less(Add(One, err), ratio[i_meas])
        \/ Less(ratio[i_meas], Sub(One, err))

\* continue_mlem after the loop over the measurements
continue_mlem(nm, ratio, err) ==
    \E i_meas \in 1..nm :
        \/ Geq(ratio[i_meas], Add(One, err))
        \/ Leq(ratio[i_meas], Sub(One, err))

\* A slip of the loop head: mlem_index <= cutoff
LoopCondition_inclusive(index, cap) == index <= cap

\* mlem_index < cutoff
LoopCondition(index, cap) == index < cap

\* A slip of the return: the count of iterations instead of the index.
ReturnValue_count(index, broke) == IF broke THEN index + 1 ELSE index

\* return mlem_index
ReturnValue(index, broke) == index

\* ------------------------------------------------ runMAP: energy correction
\* spectrum[i] as the build reads it: an index outside the vector is
\* undefined behaviour, modelled as a read of an arbitrary double
\* (hi: past the end, lo: before the start).
At(spectrum, i, hi, lo) ==
    IF i \in 1..Len(spectrum) THEN spectrum[i]
    ELSE IF i > Len(spectrum) THEN hi ELSE lo

\* TRUE when the energy-correction code indexes spectrum outside 0..num_bins-1
ReadsOutside(nb, spectrum) == 2 > Len(spectrum) \/ nb - 1 < 1

\* the interior bins: for (i_bin = 1; i_bin < num_bins-1; i_bin++)
InteriorTerms(b, nb, spectrum, hi, lo) ==
    [k \in 1..(IF nb > 2 THEN nb - 2 ELSE 0) |->
        Mul(b, Add(Pow2(Sub(At(spectrum, k + 1, hi, lo), At(spectrum, k, hi, lo))),
                   Pow2(Sub(At(spectrum, k + 1, hi, lo), At(spectrum, k + 2, hi, lo)))))]

\* energy_correction after clear() and the three pushes
EnergyCorrection(buffer, b, nb, spectrum, hi, lo) ==
    clear(buffer)
    \o << Mul(b, Pow2(Sub(At(spectrum, 1, hi, lo), At(spectrum, 2, hi, lo)))) >>
    \o InteriorTerms(b, nb, spectrum, hi, lo)
    \o << Mul(b, Pow2(Sub(At(spectrum, nb, hi, lo), At(spectrum, nb - 1, hi, lo)))) >>

\* spectrum[i_bin] = spectrum[i_bin]*mlem_correction[i_bin]
\*                   /(normalized_response[i_bin]+energy_correction[i_bin])
UpdateMAP(nb, spectrum, correction, normalized, energy) ==
    [i_bin \in 1..nb |->
        Div(Mul(spectrum[i_bin], correction[i_bin]),
            Add(normalized[i_bin], energy[i_bin]))]

\* ------------------------------------------------------------------ inputs
\* the shapes (num_bins, num_measurements) of the runs
Dims == {d \in (1..MaxBins) \X (1..MaxMeas) : d[1] * d[2] <= MaxCells}

ResponseValues == {Zero, One}
MeasurementValues == {Zero, One, Int2D(3)}
SpectrumValues == {Zero, One, Two}
ErrorValues == {<<1, 2>>}
BetaValues == {Zero, One}
\* the iteration caps of the runs; the one-bin system, whose numbers stay
\* small, also runs with a negative cap and with a larger one
CutoffValues == {0, 1, 2}
SingleBinCutoffs == {0 - 1, 0, 1, 2, 3}
\* what the caller's ratio buffer may hold on entry
StaleRatio == <<Two, Two, Two>>
StaleBuffers == {<< >>, StaleRatio}
\* what energy_correction holds on entry
StaleEnergy == <<One>>
\* the doubles an out-of-range read may produce
GarbageValues == {One, NaN}

Vectors(n, S) == [1..n -> S]
Matrices(nm, nb, S) == [1..nm -> [1..nb -> S]]

\* a run of either function before its first iteration
Fresh(spectrum, ratio) ==
    [spectrum |-> spectrum, mlem_ratio |-> ratio, mlem_index |-> 0,
     energy_correction |-> StaleEnergy,
     before |-> spectrum, updates |-> 0, broke |-> FALSE, result |-> 0]

InitRuns ==
    /\ pc = "normalizeResponse"
    /\ normalized_response = << >>
    /\ beta = Zero
    /\ mlem = Fresh(initial_spectrum, initial_ratio)
    /\ map = Fresh(initial_spectrum, initial_ratio)

\* small systems with zero and non-zero entries everywhere
InitGeneric ==
    /\ \E d \in Dims :
        /\ num_bins = d[1]
        /\ num_measurements = d[2]
    /\ nns_response \in Matrices(num_measurements, num_bins, ResponseValues)
    /\ measurements \in Vectors(num_measurements, MeasurementValues)
    /\ initial_spectrum \in Vectors(num_bins, SpectrumValues)
    /\ error \in ErrorValues
    /\ cutoff \in CutoffValues
    /\ initial_ratio = StaleRatio

\* the one-bin, one-measurement system with response [[1]]
InitSingleBin ==
    /\ num_bins = 1
    /\ num_measurements = 1
    /\ nns_response = << <<One>> >>
    /\ measurements \in {<<Int2D(k)>> : k \in 1..5}
    /\ initial_spectrum \in {<<Int2D(k)>> : k \in 1..5}
    /\ error \in {<<1, 4>>, <<1, 100>>}
    /\ cutoff \in SingleBinCutoffs
    /\ initial_ratio \in StaleBuffers

\* the response matrix [[1,2],[3,4]]
InitTwoByTwo ==
    /\ num_bins = 2
    /\ num_measurements = 2
    /\ nns_response = << <<One, Two>>, <<Int2D(3), Int2D(4)>> >>
    /\ measurements = <<Int2D(3), Int2D(7)>>
    /\ initial_spectrum = <<One, One>>
    /\ error \in ErrorValues
    /\ cutoff \in CutoffValues
    /\ initial_ratio \in StaleBuffers

Init ==
    /\ (InitGeneric \/ InitSingleBin \/ InitTwoByTwo)
    /\ InitRuns

\* ----------------------------------------------------------------- actions
\* the caller computes the normalization vector
NormalizeResponse ==
    /\ pc = "normalizeResponse"
    /\ normalized_response' = normalizeResponse(num_bins, num_measurements, nns_response)
    /\ pc' = "runMLEM"
    /\ UNCHANGED <<inputs, beta, mlem, map>>

\* one pass through the body of runMLEM's for loop
MLEMIterate ==
    /\ pc = "runMLEM"
    /\ LoopCondition(mlem.mlem_index, cutoff)
    /\ LET estimate == mlem_estimate(num_measurements, num_bins, nns_response, mlem.spectrum)
           ratio == FillRatio(mlem.mlem_ratio, num_measurements, measurements, estimate)
           correction == mlem_correction(num_bins, num_measurements, nns_response, ratio)
           updated == UpdateMLEM(num_bins, mlem.spectrum, correction, normalized_response)
           go_on == continue_mlem(num_measurements, ratio, error)
       IN /\ mlem' = [mlem EXCEPT
                        !.spectrum = updated,
                        !.mlem_ratio = ratio,
                        !.before = mlem.spectrum,
                        !.updates = mlem.updates + 1,
                        !.broke = ~go_on,
                        !.mlem_index = IF go_on THEN mlem.mlem_index + 1 ELSE mlem.mlem_index,
                        !.result = IF go_on THEN 0 ELSE ReturnValue(mlem.mlem_index, TRUE)]
          /\ pc' = IF go_on THEN "runMLEM" ELSE "runMAP"
          /\ beta' \in (IF go_on THEN {beta} ELSE BetaValues)
    /\ UNCHANGED <<inputs, normalized_response, map>>

\* the loop condition fails: runMLEM returns mlem_index
MLEMLoopExit ==
    /\ pc = "runMLEM"
    /\ ~LoopCondition(mlem.mlem_index, cutoff)
    /\ mlem' = [mlem EXCEPT !.result = ReturnValue(mlem.mlem_index, FALSE)]
    /\ pc' = "runMAP"
    /\ beta' \in BetaValues
    /\ UNCHANGED <<inputs, normalized_response, map>>

\* one pass through the body of runMAP's for loop
MAPIterate ==
    /\ pc = "runMAP"
    /\ LoopCondition(map.mlem_index, cutoff)
    /\ \E hi \in GarbageValues, lo \in GarbageValues :
        /\ ReadsOutside(num_bins, map.spectrum) \/ (hi = One /\ lo = One)
        /\ LET estimate == mlem_estimate(num_measurements, num_bins, nns_response, map.spectrum)
               ratio == FillRatio(map.mlem_ratio, num_measurements, measurements, estimate)
               correction == mlem_correction(num_bins, num_measurements, nns_response, ratio)
               energy == EnergyCorrection(map.energy_correction, beta, num_bins,
                                          map.spectrum, hi, lo)
               updated == UpdateMAP(num_bins, map.spectrum, correction,
                                    normalized_response, energy)
               go_on == continue_mlem(num_measurements, ratio, error)
           IN /\ map' = [map EXCEPT
                            !.spectrum = updated,
                            !.mlem_ratio = ratio,
                            !.energy_correction = energy,
                            !.before = map.spectrum,
                            !.updates = map.updates + 1,
                            !.broke = ~go_on,
                            !.mlem_index = IF go_on THEN map.mlem_index + 1 ELSE map.mlem_index,
                            !.result = IF go_on THEN 0 ELSE ReturnValue(map.mlem_index, TRUE)]
              /\ pc' = IF go_on THEN "runMAP" ELSE "done"
    /\ UNCHANGED <<inputs, beta, normalized_response, mlem>>

\* the loop condition fails: runMAP returns mlem_index
MAPLoopExit ==
    /\ pc = "runMAP"
    /\ ~LoopCondition(map.mlem_index, cutoff)
    /\ map' = [map EXCEPT !.result = ReturnValue(map.mlem_index, FALSE)]
    /\ pc' = "done"
    /\ UNCHANGED <<inputs, beta, normalized_response, mlem>>

Next ==
    \/ NormalizeResponse
    \/ MLEMIterate
    \/ MLEMLoopExit
    \/ MAPIterate
    \/ MAPLoopExit

Spec == Init /\ [][Next]_vars

\* runMLEM / runMAP has returned
MLEMReturned == pc \in {"runMAP", "done"}
MAPReturned == pc = "done"

\* ------------------------------------------------- vocabulary of the claims
\* 1-error < r < 1+error
InBand(r, err) == Less(Sub(One, err), r) /\ Less(r, Add(One, err))

AllInBand(ratio, err) ==
    \A m \in 1..num_measurements : m \in DOMAIN ratio /\ InBand(ratio[m], err)

\* sum of f[1..n]
RECURSIVE SumUpTo(_, _)
SumUpTo(f, n) == IF n = 0 THEN Zero ELSE Add(SumUpTo(f, n - 1), f[n])

\* the forward projection of spectrum s for measurement m
Projected(m, s) == SumUpTo([b \in 1..num_bins |-> Mul(nns_response[m][b], s[b])], num_bins)

\* the back projection of the ratios for bin b
BackProjected(b, ratio) ==
    SumUpTo([m \in 1..num_measurements |-> Mul(nns_response[m][b], ratio[m])],
            num_measurements)

\* the runs that have returned
ReturnedRuns == (IF MLEMReturned THEN {mlem} ELSE {}) \cup (IF MAPReturned THEN {map} ELSE {})

\* the ratios of the first pass
FirstRatio == [m \in 1..num_measurements |-> Div(measurements[m], Projected(m, initial_spectrum))]

\* ------------------------------------------------------------------ claims

\* C1: in runMLEM and runMAP an iteration ends the loop if and only if every
\* ratio of that iteration lies strictly inside the band
\* 1-error < ratio[m] < 1+error; a ratio on the edge of the band or outside
\* it keeps the loop going.
C1_StopsExactlyInsideBand ==
    \A run \in {mlem, map} :
        run.updates >= 1 => (run.broke <=> AllInBand(run.mlem_ratio, error))

\* with a cap >= 1 a run applies at most cap updates, returns at most cap,
\* and returns exactly cap if and only if no iteration it executed passed the
\* convergence test
CapBounds ==
    cutoff >= 1 =>
        /\ mlem.updates <= cutoff
        /\ map.updates <= cutoff
        /\ \A run \in ReturnedRuns :
            /\ run.result <= cutoff
            /\ (run.result = cutoff <=> ~run.broke)

\* the passes through the loop head a run can still make
Remaining(run, returned) ==
    IF returned THEN 0
    ELSE 1 + (IF cutoff > run.updates THEN cutoff - run.updates ELSE 0)

\* a natural number that bounds the steps still to come
Measure ==
    (IF pc = "normalizeResponse" THEN 1 ELSE 0)
    + Remaining(mlem, MLEMReturned) + Remaining(map, MAPReturned)

C3_ReturnsIndexOfConvergence ==
    \A run \in ReturnedRuns :
        /\ run.broke => run.result = run.updates - 1
        /\ ~run.broke => run.result = run.updates
        /\ (cutoff >= 1 /\ \A m \in 1..num_measurements : FirstRatio[m] = One)
              => (run.result = 0 /\ run.updates = 1 /\ run.before = initial_spectrum)

\* C3 witness: every first-pass ratio is 1 and both runs returned 0 after one
\* update.
C3_Witness ==
    /\ pc = "done"
    /\ cutoff >= 1
    /\ \A m \in 1..num_measurements : FirstRatio[m] = One
    /\ mlem.result = 0 /\ mlem.updates = 1
    /\ map.result = 0 /\ map.updates = 1

Divides(x) == ~IsNaN(x) /\ x # Zero

C5_MAPWithBetaZeroIsMLEM ==
    (pc = "done" /\ beta = Zero) =>
        /\ map.spectrum = mlem.spectrum
        /\ map.result = mlem.result

\* C6: normalizeResponse returns num_bins entries, entry i the sum of column
\* i of the response matrix over all the measurements ([[1,2],[3,4]] gives
\* [4,6]), and leaves the matrix as it was.
C6_NormalizeIsColumnSums ==
    [][pc = "normalizeResponse" /\ pc' # pc =>
        /\ DOMAIN normalized_response' = 1..num_bins
        /\ \A i \in 1..num_bins :
            normalized_response'[i] =
                SumUpTo([m \in 1..num_measurements |-> nns_response[m][i]],
                        num_measurements)
        /\ (nns_response = << <<One, Two>>, <<Int2D(3), Int2D(4)>> >>
              => normalized_response' = <<Int2D(4), Int2D(6)>>)
        /\ nns_response' = nns_response]_vars

\* C6 witness: the matrix [[1,2],[3,4]] has been normalized to [4,6].
C6_Witness ==
    /\ pc # "normalizeResponse"
    /\ nns_response = << <<One, Two>>, <<Int2D(3), Int2D(4)>> >>
    /\ normalized_response = <<Int2D(4), Int2D(6)>>

\* the one-bin system of C7, once runMLEM has returned
SingleBinRun ==
    /\ MLEMReturned
    /\ num_bins = 1 /\ num_measurements = 1
    /\ nns_response = << <<One>> >>
    /\ normalized_response = <<One>>
    /\ Less(Zero, measurements[1])
    /\ Less(Zero, initial_spectrum[1])
    /\ cutoff >= 2

\* C7 as claimed: on the one-bin system runMLEM converges before the cap
\* with spectrum[0] equal to the measurement and ratio[0] equal to 1.
C7_SingleBinRatioIsOne ==
    SingleBinRun =>
        /\ mlem.result < cutoff
        /\ mlem.spectrum[1] = measurements[1]
        /\ mlem.mlem_ratio[1] = One

\* C7 amended: on the one-bin system runMLEM converges before the cap with
\* spectrum[0] equal to the measurement and ratio[0] strictly inside the
\* tolerance band; ratio[0] is 1 unless the first pass already converged
\* (return value 0), when it is measurement / initial spectrum.
C7_SingleBinConverges ==
    SingleBinRun =>
        /\ mlem.result < cutoff
        /\ mlem.result \in {0, 1}
        /\ mlem.spectrum[1] = measurements[1]
        /\ InBand(mlem.mlem_ratio[1], error)
        /\ (mlem.result = 1 => mlem.mlem_ratio[1] = One)
        /\ (mlem.result = 0 =>
              mlem.mlem_ratio[1] = Div(measurements[1], initial_spectrum[1]))

\* C7 witness: measurement 5, initial spectrum 1, tolerance 1/100: the run
\* returned 1 with spectrum 5 and ratio 1.
C7_Witness ==
    /\ SingleBinRun
    /\ measurements = <<Int2D(5)>>
    /\ initial_spectrum = <<One>>
    /\ error = <<1, 100>>
    /\ mlem.result = 1
    /\ mlem.spectrum = <<Int2D(5)>>
    /\ mlem.mlem_ratio = <<One>>

\* the smoothness term the claim gives for bin b of spectrum s
ClaimedEnergy(b, s) ==
    IF b = 1 THEN Mul(beta, Pow2(Sub(s[1], s[2])))
    ELSE IF b = num_bins THEN Mul(beta, Pow2(Sub(s[b], s[b - 1])))
    ELSE Mul(beta, Add(Pow2(Sub(s[b], s[b - 1])), Pow2(Sub(s[b], s[b + 1]))))

\* C8: after every iteration of runMAP, for every num_bins >= 1,
\* energy_correction holds exactly num_bins entries computed from the
\* spectrum before the update, and no index outside 0..num_bins-1 was read.
C8_EnergyCorrectionPerBin ==
    map.updates >= 1 =>
        /\ Len(map.energy_correction) = num_bins
        /\ ~ReadsOutside(num_bins, map.before)
        /\ (num_bins >= 2 =>
              \A b \in 1..num_bins :
                  map.energy_correction[b] = ClaimedEnergy(b, map.before))

\* C9: an iteration in which some ratio is not finite (the estimate was 0)
\* is not treated as converged: the loop goes on.
C9_NonFiniteRatioContinues ==
    \A run \in {mlem, map} :
        ( /\ run.updates >= 1
          /\ \E m \in 1..num_measurements : ~IsFinite(run.mlem_ratio[m]) )
        => ~run.broke

\* C10: a run that returns after at least one iteration leaves exactly
\* num_measurements ratios, those of its last iteration: measured[m] over the
\* forward projection of the spectrum as it was before the last update; with
\* a cap <= 0 it returns 0 and leaves spectrum and ratio buffer untouched.
C10_RatioOfLastIteration ==
    \A run \in ReturnedRuns :
        /\ run.updates >= 1 =>
            /\ DOMAIN run.mlem_ratio = 1..num_measurements
            /\ \A m \in 1..num_measurements :
                run.mlem_ratio[m] = Div(measurements[m], Projected(m, run.before))
        /\ cutoff <= 0 =>
            /\ run.result = 0
            /\ run.updates = 0
            /\ run.spectrum = initial_spectrum
            /\ run.mlem_ratio = initial_ratio

\* C10 witness: both runs returned after two iterations that changed the
\* spectrum, entered with a stale ratio buffer of another length.
C10_Witness ==
    /\ pc = "done"
    /\ initial_ratio = StaleRatio
    /\ mlem.updates = 2 /\ map.updates = 2
    /\ mlem.before # initial_spectrum /\ mlem.before # mlem.spectrum
    /\ map.before # initial_spectrum /\ map.before # map.spectrum
    /\ Len(mlem.mlem_ratio) = num_measurements
    /\ Len(map.mlem_ratio) = num_measurements

====
